---- MODULE Spec2Model ----
(***************************************************************************)
(* hexbomb (src/src/main.rs): command line -> offset resolution (main) ->  *)
(* read loop (dump_file) -> table rows (top_line, line, empty_line,        *)
(* bottom_line).                                                           *)
(*                                                                         *)
(* Numbers.  usize, u64 and i64 are 64 bits wide; TLC's integers are not.  *)
(* A 64-bit value is a sequence of 16 hexadecimal digits, least            *)
(* significant first; an i64 is the same 16 digits in two's complement,    *)
(* which is what the casts `as u64`, `as i64` and `as usize` preserve.     *)
(*                                                                         *)
(* Text.  A String is a sequence of cells [ch, dim]: ch is one display     *)
(* character (box-drawing characters and the middle dot have names, TLA+   *)
(* strings being ASCII), dim tells whether colored's bright_black() was    *)
(* applied to it.                                                          *)
(***************************************************************************)
EXTENDS Integers, Sequences, FiniteSets, TLC

-----------------------------------------------------------------------------
(* 64-bit arithmetic *)

\* hexadecimal digits of a 64-bit value
Digits == 64 \div 4

\* F(x), with the operand x evaluated once (TLC evaluates the operand of an
\* operator anew at each of its uses when it evaluates ENABLED)
Once(x, F(_)) == CHOOSE r \in {F(v) : v \in {x}} : TRUE

RECURSIVE NatDigits(_, _)
NatDigits(n, k) == IF k = 0 THEN <<>> ELSE <<n % 16>> \o NatDigits(n \div 16, k - 1)

\* the 64-bit value of a natural number below 2^31
U(n) == NatDigits(n, Digits)

RECURSIVE AddFrom(_, _, _, _)
AddFrom(a, b, i, carry) ==
    IF i > Digits THEN <<>>
    ELSE LET s == a[i] + b[i] + carry
         IN  <<s % 16>> \o AddFrom(a, b, i + 1, s \div 16)

\* wrapping addition modulo 2^64
WrappingAdd(a, b) == Once(<<a, b>>, LAMBDA v : AddFrom(v[1], v[2], 1, 0))

Complement(a) == [i \in 1..Digits |-> 15 - a[i]]

\* wrapping subtraction modulo 2^64
WrappingSub(a, b) == Once(<<a, Complement(b)>>, LAMBDA v : AddFrom(v[1], v[2], 1, 1))

\* the sign bit of an i64
IsNegative(a) == a[Digits] >= 8

RECURSIVE LessFrom(_, _, _)
LessFrom(a, b, i) ==
    IF i = 0 THEN FALSE
    ELSE IF a[i] /= b[i] THEN a[i] < b[i]
    ELSE LessFrom(a, b, i - 1)

\* unsigned a < b
Less(a, b) == Once(<<a, b>>, LAMBDA v : LessFrom(v[1], v[2], Digits))

\* usize::MAX
USIZE_MAX == [i \in 1..Digits |-> 15]

\* i64::MAX
I64_MAX == [i \in 1..Digits |-> IF i = Digits THEN 7 ELSE 15]

RECURSIVE TopDigit(_, _)
TopDigit(a, i) == IF i = 1 \/ a[i] /= 0 THEN i ELSE TopDigit(a, i - 1)

\* number of significant hexadecimal digits, at least one
HexLen(a) == Once(a, LAMBDA v : TopDigit(v, Digits))

\* a value of at most 7 hexadecimal digits as a TLC integer
RECURSIVE NatFrom(_, _)
NatFrom(a, i) == IF i = 0 THEN 0 ELSE a[1] + 16 * NatFrom(Tail(a), i - 1)

IsSmall(a) == HexLen(a) <= 7

ToNat(a) == Once(a, LAMBDA v : NatFrom(v, 7))

-----------------------------------------------------------------------------
(* Text *)

BOX_V   == "BOX_V"
BOX_V3  == "BOX_V3"
BOX_H   == "BOX_H"
BOX_DR  == "BOX_DR"
BOX_DL  == "BOX_DL"
BOX_UR  == "BOX_UR"
BOX_UL  == "BOX_UL"
BOX_DH  == "BOX_DH"
BOX_UH  == "BOX_UH"
MIDDOT  == "MIDDOT"

Plain(chars) == [i \in DOMAIN chars |-> [ch |-> chars[i], dim |-> FALSE]]

bright_black(text) == [i \in DOMAIN text |-> [ch |-> text[i].ch, dim |-> TRUE]]

Chars(text) == [i \in DOMAIN text |-> text[i].ch]

RECURSIVE Repeat(_, _)
Repeat(text, n) == IF n <= 0 THEN <<>> ELSE text \o Repeat(text, n - 1)

HexDigit == <<"0", "1", "2", "3", "4", "5", "6", "7",
              "8", "9", "A", "B", "C", "D", "E", "F">>

\* format!("{:X}", offset)
UpperHex(a) == [i \in 1..HexLen(a) |-> HexDigit[a[HexLen(a) + 1 - i] + 1]]

\* format!("{:02X}", byte)
UpperHex02(byte) == <<HexDigit[(byte \div 16) + 1], HexDigit[(byte % 16) + 1]>>

\* format!("{:width$X}", offset, width = 8): padded with spaces on the left,
\* never truncated
UpperHexWidth(a, width) == Repeat(<<" ">>, width - HexLen(a)) \o UpperHex(a)

Ascii == <<" ", "!", "\"", "#", "$", "%", "&", "'", "(", ")", "*", "+", ",", "-", ".", "/",
           "0", "1", "2", "3", "4", "5", "6", "7", "8", "9", ":", ";", "<", "=", ">", "?",
           "@", "A", "B", "C", "D", "E", "F", "G", "H", "I", "J", "K", "L", "M", "N", "O",
           "P", "Q", "R", "S", "T", "U", "V", "W", "X", "Y", "Z", "[", "\\", "]", "^", "_",
           "BACKTICK", "a", "b", "c", "d", "e", "f", "g", "h", "i", "j", "k", "l", "m", "n", "o",
           "p", "q", "r", "s", "t", "u", "v", "w", "x", "y", "z", "{", "|", "}", "~">>

\* bytes[i] as char, for a byte the code has found to be in 32..126
AsChar(byte) == Ascii[byte - 31]

-----------------------------------------------------------------------------
(* The renderers *)

\* GroupStart without `i > 0`: a gap before column 0 as well
GroupStart_EveryEighth(i) == i % 8 = 0

\* `i > 0 && i % 8 == 0`: column i opens a new group of eight
GroupStart(i) == i > 0 /\ i % 8 = 0

\* one `for i in 0..num_per_line` loop: it pushes `gap` before every column that
\* opens a group, then the column's cell; cells[i + 1] is the cell of column i
RECURSIVE ColumnsFrom(_, _, _)
ColumnsFrom(i, cells, gap) ==
    IF i >= Len(cells) THEN <<>>
    ELSE (IF GroupStart(i) THEN gap ELSE <<>>) \o cells[i + 1]
         \o ColumnsFrom(i + 1, cells, gap)

Columns(num_per_line, gap, cell(_)) ==
    ColumnsFrom(0, [i \in 1..num_per_line |-> cell(i - 1)], gap)

Frame(left, mid, right, num_per_line) ==
    LET hex(i) == Plain(<<BOX_H, BOX_H, BOX_H>>)
        chr(i) == Plain(<<BOX_H>>)
    IN  Plain(<<left>>) \o Plain(Repeat(<<BOX_H>>, 10)) \o Plain(<<mid>>)
        \o Columns(num_per_line, Plain(<<BOX_H, BOX_H>>), hex)
        \o Plain(<<BOX_H, mid, BOX_H>>)
        \o Columns(num_per_line, Plain(<<BOX_H>>), chr)
        \o Plain(<<BOX_H, right>>)

top_line(num_per_line) == bright_black(Frame(BOX_DR, BOX_DH, BOX_DL, num_per_line))

bottom_line(num_per_line) == bright_black(Frame(BOX_UR, BOX_UH, BOX_UL, num_per_line))

empty_line(offset, num_per_line) ==
    LET hex(i) == Plain(<<" ", " ", " ">>)
        chr(i) == Plain(<<" ">>)
    IN  bright_black(
            Plain(<<BOX_V, " ">>) \o Plain(UpperHexWidth(offset, 8)) \o Plain(<<" ", BOX_V>>)
            \o Columns(num_per_line, Plain(<<" ", " ">>), hex)
            \o Plain(<<" ", BOX_V, " ">>)
            \o Columns(num_per_line, Plain(<<" ">>), chr)
            \o Plain(<<" ", BOX_V>>))

line_number(offset) ==
    LET number == UpperHex(offset)
    IN  IF Len(number) > 8 THEN Plain(number)
        ELSE bright_black(Plain(<<" ">> \o Repeat(<<MIDDOT>>, 8 - Len(number))))
             \o Plain(number)

\* Printable with `> 32`: the blank taken for a non-printable byte
Printable_Above32(byte) == byte > 32 /\ byte < 127

\* `bytes[i] > 31 && bytes[i] < 127`
Printable(byte) == byte > 31 /\ byte < 127

\* the hex cell of column i (0-based) of a data row
HexCell(bytes, num_bytes, i) ==
    IF i < num_bytes THEN Plain(<<" ">> \o UpperHex02(bytes[i + 1]))
    ELSE Plain(<<" ", " ", " ">>)

\* the character cell of column i (0-based) of a data row
CharCell(bytes, num_bytes, i) ==
    IF i < num_bytes
    THEN IF Printable(bytes[i + 1]) THEN Plain(<<AsChar(bytes[i + 1])>>)
         ELSE bright_black(Plain(<<MIDDOT>>))
    ELSE Plain(<<" ">>)

line(bytes, num_bytes, offset, num_per_line) ==
    LET hex(i) == HexCell(bytes, num_bytes, i)
        chr(i) == CharCell(bytes, num_bytes, i)
    IN  bright_black(Plain(<<BOX_V>>)) \o line_number(offset) \o Plain(<<" ">>)
        \o bright_black(Plain(<<BOX_V>>))
        \o Columns(num_per_line, bright_black(Plain(<<" ", BOX_V3>>)), hex)
        \o bright_black(Plain(<<" ", BOX_V, " ">>))
        \o Columns(num_per_line, bright_black(Plain(<<BOX_V3>>)), chr)
        \o bright_black(Plain(<<" ", BOX_V>>))

-----------------------------------------------------------------------------
(* Command-line values and sources *)

\* The text of an option value: an optionally signed decimal integer, or text
\* that is no integer at all (valid = FALSE).
Num(n) == [valid |-> TRUE, neg |-> n < 0, mag |-> U(IF n < 0 THEN 0 - n ELSE n)]

Big(digits) == [valid |-> TRUE, neg |-> FALSE, mag |-> digits]

Junk == [valid |-> FALSE, neg |-> FALSE, mag |-> U(0)]

\* str::parse::<usize>(): a sign "-" is no digit of an unsigned integer
parse_usize(text) ==
    IF text.valid /\ ~text.neg THEN [ok |-> TRUE, val |-> text.mag]
    ELSE [ok |-> FALSE, val |-> U(0)]

\* 2^63, the magnitude of i64::MIN
I64_MIN_MAG == WrappingAdd(I64_MAX, U(1))

\* str::parse::<i64>()
parse_i64(text) ==
    IF text.valid /\ ~text.neg /\ ~Less(I64_MAX, text.mag)
        THEN [ok |-> TRUE, val |-> text.mag]
    ELSE IF text.valid /\ text.neg /\ ~Less(I64_MIN_MAG, text.mag)
        THEN [ok |-> TRUE, val |-> WrappingSub(U(0), text.mag)]
    ELSE [ok |-> FALSE, val |-> U(0)]

\* args_to_ints: the three parsed values, or the exit of the first failure
args_to_ints(a) ==
    LET l == parse_usize(a.line)
        n == parse_usize(a.number)
        o == parse_i64(a.offset)
    IN  [ok |-> l.ok /\ n.ok /\ o.ok,
         num_per_line |-> l.val, num_to_read |-> n.val, offset |-> o.val]

\* Contents of the sources of the model: the bytes of a source repeat this
\* pattern (p[1] is position p modulo 16).
Pattern == <<31, 32, 72, 126, 127, 255, 0, 10>>

\* a character device delivers zero bytes (/dev/zero)
ByteAt(src, p) ==
    IF src.kind = "device" THEN 0 ELSE Pattern[(p[1] % Len(Pattern)) + 1]

\* The number of bytes one read may deliver: at most `want`, and no more than
\* the source still holds after position p; a device that never ends
\* (/dev/zero) always fills the slice.
Deliverable(src, p, want) ==
    IF src.kind = "device" /\ src.endless THEN want
    ELSE IF ~Less(p, src.len) THEN 0
    ELSE Once(WrappingSub(src.len, p),
              LAMBDA left : IF Less(U(want), left) THEN want ELSE ToNat(left))

\* file.read() does not return: io::stdin() reads through a BufReader, which
\* first fills its buffer, also for an empty slice, and the fill waits while the
\* stream holds no byte and its writer keeps it open.  A read of a file returns
\* at once.
Blocks(src, p) == src.kind = "stdin" /\ src.open /\ ~Less(p, src.len)

\* file.read() of a file can only fail: read(2) refuses a request of `want`
\* bytes at position p that reaches beyond the largest file offset, i64::MAX
\* (EINVAL)
Overflows(src, p, want) == src.kind = "file" /\ IsNegative(WrappingAdd(p, U(want)))

\* the n bytes of the source from position p on
Content(src, p, n) == [i \in 1..n |-> ByteAt(src, WrappingAdd(p, U(i - 1)))]

\* SeekStart refusing a position beyond the end of the file
SeekStart_Checked(src, offset) == [ok |-> ~Less(src.len, offset), pos |-> offset]

\* File::seek(SeekFrom::Start(offset as u64)): the offset goes to lseek(2).  On
\* a regular file it accepts every position up to the largest one the
\* operating system supports for this file (src.max_offset, never below the
\* file's length), also one past the end of the file, and refuses a greater
\* one (EINVAL).  A character device (/dev/null, /dev/zero) accepts every
\* offset and stays at position 0; a FIFO accepts none (ESPIPE).
SeekStart(src, offset) ==
    CASE src.kind = "device" -> [ok |-> TRUE, pos |-> U(0)]
      [] src.kind = "fifo" -> [ok |-> FALSE, pos |-> U(0)]
      [] OTHER -> [ok |-> ~Less(src.max_offset, offset), pos |-> offset]

\* file.seek(SeekFrom::End(0)), by which main asks for the size of the file: the
\* length of a regular file, 0 for a character device, an error for a FIFO
FileSize(src) ==
    CASE src.kind = "device" -> [ok |-> TRUE, file_size |-> U(0)]
      [] src.kind = "fifo" -> [ok |-> FALSE, file_size |-> U(0)]
      [] OTHER -> [ok |-> TRUE, file_size |-> src.len]

\* SeekEnd saturating at the start of the file instead of failing
SeekEnd_Clamped(src, offset) ==
    [ok |-> TRUE,
     pos |-> IF IsNegative(WrappingAdd(src.len, offset)) THEN U(0)
             ELSE WrappingAdd(src.len, offset)]

\* File::seek(SeekFrom::End(offset)).  On a regular file of length len the new
\* position is len + offset in i64, and a negative one is refused (EINVAL); a
\* character device accepts every offset and stays at position 0.
SeekEnd(src, offset) ==
    IF src.kind = "device" THEN [ok |-> TRUE, pos |-> U(0)]
    ELSE Once(WrappingAdd(src.len, offset),
              LAMBDA target : IF IsNegative(target) THEN [ok |-> FALSE, pos |-> src.len]
                              ELSE [ok |-> TRUE, pos |-> target])

\* `(file_size as i64 + offset) as usize`
EndDisplayOffset(file_size, offset) == WrappingAdd(file_size, offset)

-----------------------------------------------------------------------------
(* dump_file *)

\* `if read_all { usize::MAX } else { num_to_read }`
InitialRemaining(all, num_to_read) == IF all THEN USIZE_MAX ELSE num_to_read

\* "Determine the maximum number of bytes to read this iteration."
MaxBytes(all, width, remaining) ==
    IF all THEN width
    ELSE IF Less(U(width), remaining) THEN width
    ELSE ToNat(remaining)

\* `display_offset + bytes_read`, the offset argument of line(), in a build
\* without overflow checks: the sum wraps
RowOffset(disp, nread) == WrappingAdd(disp, nread)

\* the sum `display_offset + bytes_read` exceeds usize::MAX: a build with
\* overflow checks panics there ("attempt to add with overflow")
AddOverflows(disp, nread) == Less(WrappingAdd(disp, nread), disp)

\* NoRows that holds after every dump
NoRows_Always(nread) == TRUE

\* `if bytes_read == 0`: the dump produced no data row
NoRows(nread) == nread = U(0)

\* buffer[0..max_bytes] after a read of n bytes: the first n are overwritten
Filled(buf, data) ==
    Once(data, LAMBDA d : [i \in DOMAIN buf |-> IF i <= Len(d) THEN d[i] ELSE buf[i]])

-----------------------------------------------------------------------------
(* The program *)

VARIABLES
    args,            \* the command line: line, number, number_found, offset, file
    source,          \* the byte source named by the command line
    overflow_checks, \* the build: does an overflowing `+` panic (debug) or wrap
    pc,              \* "main", "loop" (in dump_file's loop), "done", "exit" (exit(1)),
                     \* "panic" (exit status 101)
    pos,             \* read position of the opened source
    read_all,        \* dump_file's parameters and locals
    num_per_line,
    display_offset,
    bytes_remaining,
    bytes_read,
    buffer,
    out,             \* the println! calls made so far: the renderer and its arguments
    err              \* the message printed on stderr, "" if none

vars == <<overflow_checks, args, source, pc, pos, read_all, num_per_line, display_offset,
          bytes_remaining, bytes_read, buffer, out, err>>

\* bounds of the command lines and sources explored
MaxLine == 1
MaxNumber == 2
MaxLen == 2

\* the length of a stream that fills a row of two groups
LongLens == {9}

\* a length of nine hexadecimal digits: 0x1_0000_0001
BigLen == [i \in 1..Digits |-> IF i \in {1, 9} THEN 1 ELSE 0]

\* an offset of ten hexadecimal digits: 0x10_0000_0000
HugeOffset == [i \in 1..Digits |-> IF i = 10 THEN 1 ELSE 0]

\* the largest position of an ext4 file mapped by extents (blocks of 4 KiB):
\* 2^44 - 4096 = 0xFFF_FFFF_F000
FileOffsetLimit == [i \in 1..Digits |-> IF i \in 4..11 THEN 15 ELSE 0]

\* the largest position of an ext4 file mapped by block lists (blocks of 4 KiB):
\* (12 + 2^10 + 2^20 + 2^30) * 4096 = 0x401_0040_C000
BlockMappedLimit ==
    <<0, 0, 0, 12, 0, 4, 0, 0, 1, 0, 4>> \o [i \in 1..(Digits - 11) |-> 0]

\* The largest position lseek(2) accepts is a property of the file, set by its
\* file system and its layout; the files of the model have one of these: the
\* two above, or every offset main can pass (a file on tmpfs).
FileLimits == {BlockMappedLimit, FileOffsetLimit, I64_MAX}

\* the first offset above FileOffsetLimit: 2^44
PastLimit == [i \in 1..Digits |-> IF i = 12 THEN 1 ELSE 0]

\* row widths on both sides of the group boundaries; 16 is the default of --line
WideLines == {8, 9, 16, 17}

LineArgs == {Junk} \cup {Num(n) : n \in -1..MaxLine} \cup {Num(n) : n \in WideLines}

NumberArgs == {Junk} \cup {Num(n) : n \in -1..MaxNumber}

OffsetArgs ==
    {Junk, Big(I64_MIN_MAG), Big(HugeOffset), Big(FileOffsetLimit), Big(PastLimit),
     Big(I64_MAX)}
        \cup {Num(n) : n \in (0 - MaxLen - 1)..(MaxLen + 1)}
        \cup {Big(WrappingSub(BigLen, U(d))) : d \in 0..2}

\* a source: standard input, or the file named: a regular file, a character
\* device (/dev/null, or /dev/zero, which is `endless`), a FIFO whose writer
\* has closed it, or a file that cannot be opened.  `len` is the number of bytes
\* it delivers, `open` says of a stream that its writer then keeps it open and
\* silent: it never signals end-of-data, and `max_offset` is the largest
\* position the operating system accepts for a regular file.
Source(kind, open, endless, len, max_offset) ==
    [kind |-> kind, open |-> open, endless |-> endless, len |-> len,
     max_offset |-> max_offset]

Sources ==
    {Source("file", FALSE, FALSE, l, m) :
        l \in {U(n) : n \in 0..MaxLen} \cup {BigLen}, m \in FileLimits}
    \cup {Source("stdin", o, FALSE, U(l), I64_MAX) : o \in BOOLEAN, l \in 0..MaxLen}
    \cup {Source("stdin", FALSE, FALSE, U(l), I64_MAX) : l \in LongLens}
    \cup {Source("device", FALSE, e, U(0), I64_MAX) : e \in BOOLEAN}
    \cup {Source("fifo", FALSE, FALSE, U(0), I64_MAX),
          Source("missing", FALSE, FALSE, U(0), I64_MAX)}

\* File::open succeeds
Opened(src) == src.kind \in {"file", "device", "fifo"}

CommandLines ==
    {[line |-> l, number |-> n, number_found |-> TRUE, offset |-> o] :
        l \in LineArgs, n \in NumberArgs, o \in OffsetArgs}
    \cup {[line |-> l, number |-> Num(0), number_found |-> FALSE, offset |-> o] :
        l \in LineArgs, o \in OffsetArgs}

\* The runs explored: a value that does not parse comes with otherwise plain
\* values, every source but a regular file with offsets 0, 1 and -1, a dump of
\* the whole of a long file starts near its end, and a dump of the device that
\* never ends has a byte limit.  The build with overflow checks is explored on
\* the devices: on the other sources display_offset is below 2^63, no sum
\* overflows and the two builds do the same.
Explored(a, src) ==
    LET plain == a.line \in {Num(1), Num(-1), Junk} /\ a.number \in {Num(0), Num(-1), Junk}
                 /\ a.offset \in {Num(0), Junk, Big(I64_MIN_MAG)}
                 /\ src.kind = "stdin" /\ src.len = U(0) /\ ~src.open
    IN  /\ (~a.line.valid \/ a.line.neg \/ ~a.number.valid \/ a.number.neg
            \/ ~parse_i64(a.offset).ok) => plain
        /\ src.kind /= "file" => a.offset \in {Num(0), Num(1), Num(-1)}
        /\ src.endless => a.number_found
        /\ (src.len = BigLen /\ ~a.number_found)
               => (a.offset.neg \/ ~IsSmall(a.offset.mag))

Init ==
    /\ args \in CommandLines
    /\ source \in Sources
    /\ overflow_checks \in BOOLEAN
    /\ overflow_checks => source.kind = "device"
    /\ Explored(args, source)
    /\ pc = "main"
    /\ pos = U(0)
    /\ read_all = FALSE
    /\ num_per_line = 0
    /\ display_offset = U(0)
    /\ bytes_remaining = U(0)
    /\ bytes_read = U(0)
    /\ buffer = <<>>
    /\ out = <<>>
    /\ err = ""

\* One println!("{}", ...) of dump_file: which renderer it calls, with which
\* arguments (num_per_line is the same in all of them).
Printed(kind, offset, num_bytes, bytes) ==
    [kind |-> kind, offset |-> offset, num_bytes |-> num_bytes, bytes |-> bytes]

\* the line a println! call of `out` writes to stdout
Text(row) ==
    CASE row.kind = "top" -> top_line(num_per_line)
      [] row.kind = "data" -> line(row.bytes, row.num_bytes, row.offset, num_per_line)
      [] row.kind = "empty" -> empty_line(row.offset, num_per_line)
      [] row.kind = "bottom" -> bottom_line(num_per_line)

Exit(message) ==
    /\ pc' = "exit"
    /\ err' = message
    /\ UNCHANGED <<overflow_checks, args, source, pos, read_all, num_per_line, display_offset,
                   bytes_remaining, bytes_read, buffer, out>>

\* The call dump_file(file, read_all, num_to_read, num_per_line, display_offset)
\* up to the loop: the locals are set and the top border is printed.
EnterDump(a, p, disp) ==
    /\ pos' = p
    /\ read_all' = ~args.number_found
    /\ num_per_line' = ToNat(a.num_per_line)
    /\ display_offset' = disp
    /\ bytes_remaining' = InitialRemaining(~args.number_found, a.num_to_read)
    /\ bytes_read' = U(0)
    /\ buffer' = [i \in 1..ToNat(a.num_per_line) |-> 0]
    /\ out' = <<Printed("top", U(0), 0, <<>>)>>
    /\ pc' = "loop"
    /\ UNCHANGED <<overflow_checks, args, source, err>>

\* main: a value of --line, --number or --offset does not parse
ArgsError ==
    /\ pc = "main"
    /\ \E a \in {args_to_ints(args)} :
         /\ ~a.ok
         /\ Exit("cannot parse")

\* main: no file named and a non-zero offset
StdinOffsetError ==
    /\ pc = "main"
    /\ source.kind = "stdin"
    /\ \E a \in {args_to_ints(args)} :
         /\ a.ok
         /\ a.offset /= U(0)
         /\ Exit("STDIN does not support seeking to an offset.")

\* main: no file named, offset 0
DumpStdin ==
    /\ pc = "main"
    /\ source.kind = "stdin"
    /\ \E a \in {args_to_ints(args)} :
         /\ a.ok
         /\ a.offset = U(0)
         /\ EnterDump(a, U(0), U(0))

\* main: the named file cannot be opened
OpenError ==
    /\ pc = "main"
    /\ source.kind = "missing"
    /\ \E a \in {args_to_ints(args)} :
         /\ a.ok
         /\ Exit("cannot open the specified file.")

\* The position and display offset main resolves for an opened file, or the
\* message of the seek that fails: of the seek to the offset, or of the seek to
\* the end that asks for the size ("Error: {err}").
Resolve(src, offset) ==
    IF offset /= U(0) /\ ~IsNegative(offset)
    THEN [ok |-> SeekStart(src, offset).ok, pos |-> SeekStart(src, offset).pos,
          display_offset |-> offset,
          message |-> "cannot seek to the specified offset."]
    ELSE IF IsNegative(offset)
    THEN [ok |-> FileSize(src).ok /\ SeekEnd(src, offset).ok,
          pos |-> SeekEnd(src, offset).pos,
          display_offset |-> EndDisplayOffset(FileSize(src).file_size, offset),
          message |-> IF FileSize(src).ok THEN "cannot seek to the specified offset."
                      ELSE "file size error"]
    ELSE [ok |-> TRUE, pos |-> U(0), display_offset |-> U(0), message |-> ""]

\* main: a seek of the opened file fails
SeekError ==
    /\ pc = "main"
    /\ Opened(source)
    /\ \E a \in {args_to_ints(args)} :
         /\ a.ok
         /\ \E r \in {Resolve(source, a.offset)} :
              /\ ~r.ok
              /\ Exit(r.message)

\* main: the file is opened, positioned and dumped
DumpFile ==
    /\ pc = "main"
    /\ Opened(source)
    /\ \E a \in {args_to_ints(args)} :
         /\ a.ok
         /\ \E r \in {Resolve(source, a.offset)} :
              /\ r.ok
              /\ EnterDump(a, r.pos, r.display_offset)

\* One iteration of the loop in which file.read() returns Ok(n), n > 0.  A read
\* may return fewer bytes than asked for, and at least one while the source
\* holds one and the slice is not empty.
ReadData ==
    /\ pc = "loop"
    /\ \E max_bytes \in {MaxBytes(read_all, num_per_line, bytes_remaining)} :
         \E n \in 1..Deliverable(source, pos, max_bytes) :
           /\ ~Overflows(source, pos, max_bytes)
           /\ ~(overflow_checks /\ AddOverflows(display_offset, bytes_read))
           /\ buffer' = Filled(buffer, Content(source, pos, n))
           /\ out' = Append(out, Printed("data", RowOffset(display_offset, bytes_read),
                                         n, buffer'))
           /\ bytes_read' = WrappingAdd(bytes_read, U(n))
           /\ bytes_remaining' = WrappingSub(bytes_remaining, U(n))
           /\ pos' = WrappingAdd(pos, U(n))
    /\ UNCHANGED <<overflow_checks, args, source, pc, read_all, num_per_line, display_offset, err>>

\* The iteration in which file.read() returns Ok(n), n > 0, and the sum
\* `display_offset + bytes_read` overflows in a build with overflow checks: the
\* process panics before the row is printed.
AddPanic ==
    /\ pc = "loop"
    /\ overflow_checks /\ AddOverflows(display_offset, bytes_read)
    /\ \E max_bytes \in {MaxBytes(read_all, num_per_line, bytes_remaining)} :
         \E n \in 1..Deliverable(source, pos, max_bytes) :
           /\ ~Overflows(source, pos, max_bytes)
           /\ buffer' = Filled(buffer, Content(source, pos, n))
           /\ pos' = WrappingAdd(pos, U(n))
    /\ pc' = "panic"
    /\ err' = "attempt to add with overflow"
    /\ UNCHANGED <<overflow_checks, args, source, read_all, num_per_line,
                   display_offset, bytes_remaining, bytes_read, out>>

\* The iteration in which file.read() returns Ok(0): the loop is left, the
\* empty row is printed if nothing was read, then the bottom border.
ReadEnd ==
    /\ pc = "loop"
    /\ ~Blocks(source, pos)
    /\ \E max_bytes \in {MaxBytes(read_all, num_per_line, bytes_remaining)} :
         /\ ~Overflows(source, pos, max_bytes)
         /\ Deliverable(source, pos, max_bytes) = 0
    /\ out' = out
              \o (IF NoRows(bytes_read)
                  THEN <<Printed("empty", display_offset, 0, <<>>)>>
                  ELSE <<>>)
              \o <<Printed("bottom", U(0), 0, <<>>)>>
    /\ pc' = "done"
    /\ UNCHANGED <<overflow_checks, args, source, pos, read_all, num_per_line, display_offset,
                   bytes_remaining, bytes_read, buffer, err>>

\* file.read() returns Err(err)
ReadError ==
    /\ pc = "loop"
    /\ ~Blocks(source, pos)
    /\ Exit("read error")

Next ==
    \/ ArgsError
    \/ StdinOffsetError
    \/ DumpStdin
    \/ OpenError
    \/ SeekError
    \/ DumpFile
    \/ ReadData
    \/ AddPanic
    \/ ReadEnd
    \/ ReadError

Spec == Init /\ [][Next]_vars

\* The process runs: main and each iteration of the loop whose read returns
\* are eventually taken.
FairSpec == Spec /\ WF_vars(Next)

-----------------------------------------------------------------------------
(* What the claims speak of *)

Kinds == [i \in DOMAIN out |-> out[i].kind]

IsData(row) == row.kind = "data"

DataRows == SelectSeq(out, IsData)

RECURSIVE SumLengths(_)
SumLengths(rows) ==
    IF rows = <<>> THEN 0 ELSE Head(rows).num_bytes + SumLengths(Tail(rows))

RECURSIVE ShownBytes(_)
ShownBytes(rows) ==
    IF rows = <<>> THEN <<>>
    ELSE SubSeq(Head(rows).bytes, 1, Head(rows).num_bytes) \o ShownBytes(Tail(rows))

\* dump_file has been entered
InDump == out /= <<>>

Parsed == args_to_ints(args)

\* the position of the source when dump_file was entered
StartPos == WrappingSub(pos, bytes_read)

\* min(limit, bytes the source holds from position p on), limit < 2^28
AvailableUpTo(limit, p) ==
    IF source.endless THEN limit
    ELSE IF ~Less(p, source.len) THEN 0
    ELSE IF Less(U(limit), WrappingSub(source.len, p)) THEN limit
    ELSE ToNat(WrappingSub(source.len, p))

\* the number of group gaps of a region of w columns
Gaps(w) == IF w = 0 THEN 0 ELSE (w - 1) \div 8

\* the display width of a row of w columns whose offset column has 12 characters
TableWidth(w) == 12 + (3 * w + 2 * Gaps(w)) + 3 + (w + Gaps(w)) + 2

\* a file is dumped from a negative offset -k
FromEnd == Parsed.ok /\ source.kind = "file" /\ IsNegative(Parsed.offset)

\* k of the offset -k
BackBy == WrappingSub(U(0), Parsed.offset)

\* the read of dump_file's loop cannot return: the stream is silent and open
Blocked == pc = "loop" /\ Blocks(source, pos)

\* a file is dumped from a positive offset beyond its end
BeyondEnd ==
    /\ Parsed.ok /\ source.kind = "file"
    /\ ~IsNegative(Parsed.offset) /\ Less(source.len, Parsed.offset)

-----------------------------------------------------------------------------
(* C1 *)

\* C1 (as stated): in bounded mode the lengths of the data rows never add up to
\* more than the byte limit N, bytes_remaining is N minus that sum, and when the
\* loop has ended the sum is min(N, bytes available from the start position).
C1_BoundedTotal ==
    (InDump /\ ~read_all) =>
        /\ SumLengths(DataRows) <= ToNat(Parsed.num_to_read)
        /\ bytes_remaining = WrappingSub(Parsed.num_to_read, U(SumLengths(DataRows)))
        /\ pc = "done" =>
             SumLengths(DataRows) = AvailableUpTo(ToNat(Parsed.num_to_read), StartPos)

\* C1, for the row widths the read loop is meant for: the statement holds
\* whenever num_per_line > 0.
C1_BoundedTotalPositiveWidth == num_per_line > 0 => C1_BoundedTotal

-----------------------------------------------------------------------------
(* C2 *)

\* C2: a dump that ends without a read error has printed the top border, then
\* one or more data rows or else exactly one empty row, then the bottom border;
\* while the loop runs only the top border and data rows have been printed; no
\* data row has length 0.
C2_LineOrder ==
    /\ \A i \in DOMAIN out : out[i].kind = "data" => out[i].num_bytes > 0
    /\ pc = "loop" =>
         /\ Len(out) >= 1 /\ out[1].kind = "top"
         /\ \A i \in 2..Len(out) : out[i].kind = "data"
    /\ pc = "done" =>
         /\ Len(out) >= 3
         /\ out[1].kind = "top"
         /\ out[Len(out)].kind = "bottom"
         /\ \/ \A i \in 2..(Len(out) - 1) : out[i].kind = "data"
            \/ Len(out) = 3 /\ out[2].kind = "empty"
         /\ (Kinds[2] = "empty") <=> (DataRows = <<>>)

C2_Witness == pc = "done" /\ Len(DataRows) >= 2

-----------------------------------------------------------------------------
(* C3 *)

\* C3 (as stated): an offset -k with k greater than the file's length is
\* clamped: no error, display offset 0, reading starts at byte 0.
C3_ClampsToStart ==
    (FromEnd /\ Less(source.len, BackBy) /\ pc /= "main") =>
        /\ err /= "cannot seek to the specified offset."
        /\ InDump /\ display_offset = U(0) /\ StartPos = U(0)

\* C3 (amended): on a regular file an offset -k with k greater than its length
\* makes the seek fail: the process exits with "cannot seek to the specified
\* offset." and prints no line.
C3_SeekBeforeStartFails ==
    (FromEnd /\ Less(source.len, BackBy) /\ pc /= "main") =>
        /\ pc = "exit"
        /\ err = "cannot seek to the specified offset."
        /\ out = <<>>

C3_Witness ==
    FromEnd /\ Less(source.len, BackBy) /\ source.len /= U(0) /\ pc = "exit"

-----------------------------------------------------------------------------
(* C4 *)

\* C4 (as stated): an offset -k with 0 < k <= L gives display offset L - k and
\* reading starts at position L - k, so that an unbounded dump that ends shows
\* exactly the last k bytes of the file.
C4_LastBytes ==
    (FromEnd /\ ~Less(source.len, BackBy) /\ InDump) =>
        /\ display_offset = WrappingSub(source.len, BackBy)
        /\ StartPos = WrappingSub(source.len, BackBy)
        /\ (pc = "done" /\ read_all) =>
             ShownBytes(DataRows)
                 = Content(source, WrappingSub(source.len, BackBy), ToNat(BackBy))

\* C4, for the row widths the read loop is meant for
C4_LastBytesPositiveWidth == num_per_line > 0 => C4_LastBytes

-----------------------------------------------------------------------------
(* C5 *)

\* C5 (as stated): a positive offset greater than the file's length fails with
\* a seek error and no line is printed.
C5_SeekBeyondEndFails ==
    (BeyondEnd /\ pc /= "main") =>
        /\ pc = "exit"
        /\ err = "cannot seek to the specified offset."
        /\ out = <<>>

\* C5 (amended): a positive offset greater than the file's length fails only
\* when the operating system refuses the position (it is above the largest
\* position supported for that file): then the seek error is reported and no
\* line is printed.  Otherwise the seek succeeds: the display offset is the
\* offset, no data row is printed, and a dump that ends has printed the top
\* border, one empty row labelled with the offset, and the bottom border.
C5_SeekBeyondEndDumpsEmpty ==
    (BeyondEnd /\ pc /= "main") =>
        IF Less(source.max_offset, Parsed.offset)
        THEN /\ pc = "exit"
             /\ err = "cannot seek to the specified offset."
             /\ out = <<>>
        ELSE /\ err /= "cannot seek to the specified offset."
             /\ InDump /\ display_offset = Parsed.offset /\ pos = Parsed.offset
             /\ DataRows = <<>>
             /\ pc = "done" =>
                  /\ Kinds = <<"top", "empty", "bottom">>
                  /\ out[2].offset = Parsed.offset

C5_Witness ==
    /\ BeyondEnd /\ pc = "done" /\ source.len /= U(0) /\ num_per_line > 0
    /\ Kinds = <<"top", "empty", "bottom">>

-----------------------------------------------------------------------------
(* C6 *)

\* C6 (as stated): dump_file and the renderers are only entered with
\* num_per_line > 0.
C6_WidthPositive == InDump => num_per_line > 0

-----------------------------------------------------------------------------
(* C7 *)

\* the character cell of column i (0-based) of the text of a data row
CharCellOf(text, i) ==
    text[Len(text) - 2 - (num_per_line + Gaps(num_per_line)) + i + (i \div 8) + 1]

\* C7 (as stated): in the character region of a data row a printable byte
\* (32..126) shows as its ASCII character and every other cell, also the
\* padding after a short chunk, as the middle dot.
C7_PaddingIsMiddleDot ==
    \A r \in DOMAIN out : out[r].kind = "data" =>
        \A text \in {Text(out[r])} : \A i \in 0..(num_per_line - 1) :
            CharCellOf(text, i).ch =
                IF i < out[r].num_bytes /\ out[r].bytes[i + 1] \in 32..126
                THEN Ascii[out[r].bytes[i + 1] - 31]
                ELSE MIDDOT

\* C7 (amended): a printable byte (32..126) shows as its ASCII character, any
\* other byte of the chunk as the middle dot, and a padding position after a
\* short chunk as a blank.
C7_CharRegion ==
    \A r \in DOMAIN out : out[r].kind = "data" =>
        \A text \in {Text(out[r])} : \A i \in 0..(num_per_line - 1) :
            CharCellOf(text, i).ch =
                IF i >= out[r].num_bytes THEN " "
                ELSE IF out[r].bytes[i + 1] \in 32..126
                THEN Ascii[out[r].bytes[i + 1] - 31]
                ELSE MIDDOT

C7_Witness ==
    \E r \in DOMAIN out :
        /\ out[r].kind = "data" /\ num_per_line > 8
        /\ out[r].num_bytes = 6 /\ out[r].bytes[1] = 31 /\ out[r].bytes[3] = 72
        /\ out[r].bytes[4] = 126 /\ out[r].bytes[5] = 127 /\ out[r].bytes[6] = 255
        /\ CharCellOf(Text(out[r]), 8).ch = " "

-----------------------------------------------------------------------------
(* C8 *)

Ended == pc \in {"done", "exit", "panic"}

\* C8 (as stated, bounded mode): a dump with limit N never consumes more than N
\* bytes, and once N bytes have been consumed the loop ends, the bottom border
\* is printed or the process exits, also when the source never signals
\* end-of-data (stated for the row widths the loop is meant for).
C8_LoopEndsAtLimit ==
    /\ []((InDump /\ ~read_all) => ~Less(Parsed.num_to_read, bytes_read))
    /\ (pc = "loop" /\ ~read_all /\ bytes_remaining = U(0) /\ num_per_line > 0) ~> Ended

\* C8, for the sources that signal end-of-data: every run ends.
C8_ClosedSourcesEnd == (pc = "main" /\ ~source.open) ~> Ended

\* C8, what keeps a run from ending: a read that does not return.
C8_EndsUnlessBlocked == <>(Ended \/ [](Blocked))

-----------------------------------------------------------------------------
(* C9 *)

\* the characters of the offset label of a data row: the last of the eight
\* characters after frame and blank, or all the digits of a longer number, which
\* follows the frame directly
LabelOf(text, offset) ==
    IF HexLen(offset) <= 8 THEN SubSeq(Chars(text), 11 - HexLen(offset), 10)
    ELSE SubSeq(Chars(text), 2, 1 + HexLen(offset))

\* C9 (as stated): the offset label of every data row is display_offset plus
\* the lengths of the data rows before it, so the first is labelled
\* display_offset and the labels increase strictly.
C9_RowLabels ==
    \A j \in DOMAIN DataRows :
        LET expected == WrappingAdd(display_offset,
                                    U(SumLengths(SubSeq(DataRows, 1, j - 1))))
        IN  /\ DataRows[j].offset = expected
            /\ LabelOf(Text(DataRows[j]), expected) = UpperHex(expected)
            /\ j = 1 => DataRows[j].offset = display_offset
            /\ j > 1 => Less(DataRows[j - 1].offset, DataRows[j].offset)

\* C9, for the dumps in which display_offset plus the bytes read stays within
\* usize: the statement holds.
C9_RowLabelsWithoutOverflow ==
    ~AddOverflows(display_offset, bytes_read) => C9_RowLabels

-----------------------------------------------------------------------------
(* C10 *)

\* the offset column of a data or empty row: frame, blank, eight characters of
\* offset, blank, frame
OffsetColumn(text, offset) ==
    /\ Len(text) >= 12
    /\ text[1].ch = BOX_V /\ text[2].ch = " "
    /\ SubSeq(Chars(text), 11 - HexLen(offset), 10) = UpperHex(offset)
    /\ \A i \in 3..(10 - HexLen(offset)) : text[i].ch \in {" ", MIDDOT}
    /\ text[11].ch = " " /\ text[12].ch = BOX_V

Aligned(row, text) ==
    /\ Len(text) = TableWidth(num_per_line)
    /\ row.kind \in {"data", "empty"} => OffsetColumn(text, row.offset)

\* C10 (as stated): for every row width w > 0 and every offset, the borders,
\* the data rows and the empty row have the same number of display characters,
\* 12 + (3w + 2 floor((w-1)/8)) + 3 + (w + floor((w-1)/8)) + 2, the offset
\* column being frame, blank, exactly 8 offset characters, blank, frame.
C10_AllRowsAligned ==
    num_per_line > 0 =>
        \A r \in DOMAIN out : \A text \in {Text(out[r])} : Aligned(out[r], text)

\* C10 (amended): the same, for every offset of at most 8 hexadecimal digits
\* (below 16^8); a longer offset widens or shifts the offset column of its row.
C10_RowsAlignedBelow16Pow8 ==
    num_per_line > 0 =>
        \A r \in DOMAIN out : HexLen(out[r].offset) <= 8 =>
            \A text \in {Text(out[r])} : Aligned(out[r], text)

C10_Witness ==
    /\ pc = "done" /\ num_per_line > 8 /\ Len(DataRows) >= 2
    /\ HexLen(DataRows[1].offset) = 8
    /\ DataRows[2].num_bytes < num_per_line

====
